---- MODULE Spec2Model ----
(***************************************************************************)
(* tfdiff: the `diff` command of src/main.go.  It stashes the working      *)
(* tree, checks out the base branch, parses every *.tf file into a map of  *)
(* Resources, returns to the target branch, parses again, and prints one   *)
(* `-target <name> ` per Resource that was added, removed or changed, or   *)
(* `-refresh=false` when there is none.                                    *)
(***************************************************************************)
EXTENDS Naturals, Sequences, FiniteSets

VARIABLES
    pc,                 \* position inside diff() / the process outcome
    baseFlag,           \* the --base flag ("" when not given)
    targetFlag,         \* the --target flag ("" when not given)
    baseBranch,         \* local baseBranch of diff()
    targetBranch,       \* local targetBranch of diff()
    branches,           \* the branches `git branch` lists
    cur,                \* the branch the working tree is on
    stash,              \* "none" | "saved" | "popped": the stash entry of this run
    log,                \* the git commands run so far, in order
    baseTree,           \* the *.tf files of the base branch, in glob order
    headTree,           \* the *.tf files of the target branch, in glob order
    baseResources,      \* map[string]*Resource returned by the first parse()
    headResources,      \* map[string]*Resource returned by the second parse()
    visited,            \* keys the running `range` loop has already produced
    differentResources, \* the []string diff() appends to
    out                 \* what was written to stdout, one element per Print call

vars == <<pc, baseFlag, targetFlag, baseBranch, targetBranch, branches, cur,
          stash, log, baseTree, headTree, baseResources, headResources,
          visited, differentResources, out>>

----------------------------------------------------------------------------
(* Bounds of the model.                                                    *)

\* top-level blocks per file in the file-level family of trees
MaxBlocks == 2
\* nested blocks (at any depth, siblings included) below one declaration
MaxNodes == 3
\* nesting depth of the declarations compared by the differ
MaxDepth == 2

----------------------------------------------------------------------------
(* Maps.  A Go map is a nil map or a non-nil map; reflect.DeepEqual tells  *)
(* the two apart, so the model keeps the difference.                       *)

EmptyFn == [k \in {} |-> 0]

Put(f, k, v) == [y \in DOMAIN f \cup {k} |-> IF y = k THEN v ELSE f[y]]

NilMap == [isNil |-> TRUE, m |-> EmptyFn]

MakeMap(f) == [isNil |-> FALSE, m |-> f]

----------------------------------------------------------------------------
(* The syntax tree hclparse hands to parse(): files of blocks; a block has *)
(* a type, labels and a body; a body has attributes (name -> expression)   *)
(* and an ordered list of nested blocks.                                   *)

Lit(s) == [kind |-> "lit", s |-> s]

VarRef == [kind |-> "var", s |-> "var.a"]

SynBody(attrs, blocks) == [attrs |-> attrs, blocks |-> blocks]

SynBlock(type, labels, body) == [type |-> type, labels |-> labels, body |-> body]

File(ok, blocks) == [ok |-> ok, blocks |-> blocks]

\* cty.DynamicVal: what an expression that cannot be evaluated yields
DynamicVal == [ty |-> "dynamic", v |-> "unknown"]

\* attr.Expr.Value(&hcl.EvalContext{}): a literal evaluates to its string; a
\* variable reference has no variable to resolve to and yields DynamicVal
\* together with error diagnostics.
ExprValue(e) ==
    IF e.kind = "lit"
    THEN [val |-> [ty |-> "string", v |-> e.s], diags |-> FALSE]
    ELSE [val |-> DynamicVal, diags |-> TRUE]

----------------------------------------------------------------------------
(* decodeAttributes, decodeBlocks, decodeResource, parse                   *)

\* a decodeAttributes that skips an attribute whose evaluation reported errors
decodeAttributesStrict(attributes) ==
    MakeMap([n \in {k \in DOMAIN attributes : ~ExprValue(attributes[k]).diags}
                |-> ExprValue(attributes[n]).val])

decodeAttributes(attributes) ==
    MakeMap([n \in DOMAIN attributes |-> ExprValue(attributes[n]).val])

\* a store that keeps the entry already present
storeBlockKeepFirst(block, type, n) ==
    IF type \in DOMAIN block THEN block ELSE Put(block, type, n)

\* block[b.Type] = n
storeBlock(block, type, n) == Put(block, type, n)

RECURSIVE decodeBlocks(_)
RECURSIVE decodeBlocksLoop(_, _, _)

\* one iteration's `n`: the Block built from b.Body
decodeBlock(b) ==
    [Attributes |-> IF Cardinality(DOMAIN b.body.attrs) > 0
                    THEN decodeAttributes(b.body.attrs) ELSE NilMap,
     Blocks |-> IF Len(b.body.blocks) > 0
                THEN decodeBlocks(b.body.blocks) ELSE NilMap]

decodeBlocksLoop(blocks, i, block) ==
    IF i > Len(blocks) THEN block
    ELSE decodeBlocksLoop(blocks, i + 1,
                          storeBlock(block, blocks[i].type, decodeBlock(blocks[i])))

decodeBlocks(blocks) == MakeMap(decodeBlocksLoop(blocks, 1, EmptyFn))

\* block.Labels[0] / block.Labels[1] on a slice too short: a runtime panic
Panics(block) ==
    \/ block.type = "resource" /\ Len(block.labels) < 2
    \/ block.type = "module" /\ Len(block.labels) < 1

\* fmt.Sprintf("%s.%s", ...) / fmt.Sprintf("module.%s", ...)
ResourceName(block) ==
    IF block.type = "resource"
    THEN block.labels[1] \o "." \o block.labels[2]
    ELSE IF block.type = "module"
    THEN "module." \o block.labels[1]
    ELSE ""

decodeResource(block) ==
    [Name |-> ResourceName(block),
     Attributes |-> IF Cardinality(DOMAIN block.body.attrs) > 0
                    THEN decodeAttributes(block.body.attrs) ELSE NilMap,
     Blocks |-> IF Len(block.body.blocks) > 0
                THEN decodeBlocks(block.body.blocks) ELSE NilMap]

Recognized(block) == block.type = "resource" \/ block.type = "module"

\* a store that keeps the Resource already present under the name
storeResourceKeepFirst(resources, r) ==
    IF r.Name \in DOMAIN resources THEN resources ELSE Put(resources, r.Name, r)

\* resources[resource.Name] = resource
storeResource(resources, r) == Put(resources, r.Name, r)

ParseResult(status, resources) == [status |-> status, resources |-> resources]

RECURSIVE parseBlocks(_, _, _)
\* the inner loop of parse() over one file's top-level blocks
parseBlocks(blocks, j, resources) ==
    IF j > Len(blocks) THEN ParseResult("ok", resources)
    ELSE IF ~Recognized(blocks[j]) THEN parseBlocks(blocks, j + 1, resources)
    ELSE IF Panics(blocks[j]) THEN ParseResult("panic", EmptyFn)
    ELSE parseBlocks(blocks, j + 1, storeResource(resources, decodeResource(blocks[j])))

RECURSIVE parseFiles(_, _, _)
\* the outer loop of parse() over the files filepath.Glob returned
parseFiles(files, i, resources) ==
    IF i > Len(files) THEN ParseResult("ok", resources)
    ELSE IF ~files[i].ok THEN ParseResult("exit", EmptyFn)
    ELSE LET r == parseBlocks(files[i].blocks, 1, resources)
         IN  IF r.status = "ok" THEN parseFiles(files, i + 1, r.resources) ELSE r

parse(files) == parseFiles(files, 1, EmptyFn)

----------------------------------------------------------------------------
(* reflect.DeepEqual on two *Resource: the pointed-to structs are compared *)
(* field by field; two maps are equal when both are nil or both are not,   *)
(* they have the same keys and the values under each key are deeply equal. *)

DeepEqualValues(a, b) ==
    /\ a.isNil = b.isNil
    /\ DOMAIN a.m = DOMAIN b.m
    /\ \A k \in DOMAIN a.m : a.m[k].ty = b.m[k].ty /\ a.m[k].v = b.m[k].v

RECURSIVE DeepEqualBlocks(_, _)
DeepEqualBlocks(a, b) ==
    /\ a.isNil = b.isNil
    /\ DOMAIN a.m = DOMAIN b.m
    /\ \A k \in DOMAIN a.m :
          /\ DeepEqualValues(a.m[k].Attributes, b.m[k].Attributes)
          /\ DeepEqualBlocks(a.m[k].Blocks, b.m[k].Blocks)

\* a comparison that stops at the declaration's own attributes
DeepEqualShallow(a, b) ==
    a.Name = b.Name /\ DeepEqualValues(a.Attributes, b.Attributes)

\* a comparison of the two pointers themselves: two parses never share one
DeepEqualPointer(a, b) == FALSE

DeepEqual(a, b) ==
    /\ a.Name = b.Name
    /\ DeepEqualValues(a.Attributes, b.Attributes)
    /\ DeepEqualBlocks(a.Blocks, b.Blocks)

----------------------------------------------------------------------------
(* The two loops of diff() and the printing of their result.               *)

\* the first loop's body treated as the only one: nothing is added later
headSideAddedNever(base, head, name) == FALSE

\* the second loop's body without its `!ok` test
headSideAddedAlways(base, head, name) == TRUE

\* first loop, one iteration: does `name` get appended?
baseSideChanged(base, head, name) ==
    IF name \notin DOMAIN head THEN TRUE
    ELSE ~DeepEqual(base[name], head[name])

\* second loop, one iteration: does `name` get appended?
headSideAdded(base, head, name) == name \notin DOMAIN base

Sentinel == "-refresh=false"

TargetFlag(name) == "-target " \o name \o " "

\* the Printf/Print calls at the end of diff(), one element per call
render(names) ==
    IF Len(names) > 0
    THEN [i \in 1..Len(names) |-> TargetFlag(names[i])]
    ELSE <<Sentinel>>

----------------------------------------------------------------------------
(* The inputs.                                                             *)

NoAttrs == EmptyFn

AmiX == [ami |-> Lit("x")]

AmiY == [ami |-> Lit("y")]

\* top-level blocks of the file-level family: two versions of one resource,
\* a resource and a module whose names coincide, an unrecognized block, and
\* two recognized blocks with too few labels
ResA(body) == SynBlock("resource", <<"aws_instance", "a">>, body)

ResModuleNet == SynBlock("resource", <<"module", "net">>, SynBody(AmiX, <<>>))

ModuleNet == SynBlock("module", <<"net">>, SynBody([source |-> Lit("./m")], <<>>))

VariableV == SynBlock("variable", <<"v">>, SynBody(AmiX, <<>>))

ResOneLabel == SynBlock("resource", <<"aws_instance">>, SynBody(NoAttrs, <<>>))

ModuleNoLabel == SynBlock("module", <<>>, SynBody(NoAttrs, <<>>))

TopBlocks ==
    {ResA(SynBody(AmiX, <<>>)), ResA(SynBody(AmiY, <<>>)), ResModuleNet,
     ModuleNet, VariableV, ResOneLabel, ModuleNoLabel}

SeqsUpTo(S, n) == UNION {[1..k -> S] : k \in 0..n}

\* a file hclparse rejects, or a file with up to MaxBlocks top-level blocks
TopFiles ==
    {File(FALSE, <<>>)} \cup {File(TRUE, bs) : bs \in SeqsUpTo(TopBlocks, MaxBlocks)}

\* the names filepath.Glob("*.tf") can return, in the order it returns them
FileNames == <<"a.tf", "b.tf">>

TopTrees == SeqsUpTo(TopFiles, Len(FileNames))

\* attributes and block types of the nesting family
NestAttrs == {NoAttrs, [ami |-> Lit("x"), size |-> VarRef]}

NestTypes == {"ebs", "tags"}

\* the lists made of one block of B followed by a list of R
Cons(B, R) == {<<b>> \o r : b \in B, r \in R}

\* the blocks with attributes of NestAttrs, a type of NestTypes, nested blocks of F
NestBlocks(F) == {SynBlock(t, <<>>, SynBody(a, f)) : t \in NestTypes, a \in NestAttrs, f \in F}

RECURSIVE BuildForests(_, _)
\* tab[k], k < n, holds the lists of exactly k blocks; add the lists of n blocks,
\* whose first block has k - 1 descendants, and go on to MaxNodes
BuildForests(tab, n) ==
    IF n > MaxNodes THEN tab
    ELSE BuildForests(
            Put(tab, n, UNION {Cons(NestBlocks(tab[k - 1]), tab[n - k]) : k \in 1..n}),
            n + 1)

\* Forests[n]: the lists of nested blocks holding exactly n blocks, descendants included
Forests == BuildForests([n \in {0} |-> {<<>>}], 1)

NestBodies ==
    UNION {{SynBody(a, f) : a \in NestAttrs, f \in Forests[n]} : n \in 0..MaxNodes}

NestTrees == {<<File(TRUE, <<ResA(b)>>)>> : b \in NestBodies}

Trees == TopTrees \cup NestTrees

\* the trees of the differ family: one file, an optional leading block, and
\* an optional resource whose body nests one block per level
DiffAttrs == {NoAttrs, AmiX, AmiY}

RECURSIVE ChainBodies(_)
ChainBodies(d) ==
    {SynBody(a, <<>>) : a \in DiffAttrs}
    \cup (IF d = 0 THEN {}
          ELSE {SynBody(a, <<SynBlock("ebs", <<>>, b)>>) :
                   a \in DiffAttrs, b \in ChainBodies(d - 1)})

DiffPrefixes == {<<>>, <<ModuleNet>>, <<VariableV>>}

DiffTrees ==
    {<<File(TRUE, p \o r)>> :
        p \in DiffPrefixes,
        r \in {<<>>} \cup {<<ResA(b)>> : b \in ChainBodies(MaxDepth)}}

\* the trees of the whole-command runs: at most one file of at most one block
SmallTrees ==
    {t \in TopTrees : Len(t) <= 1 /\ \A i \in 1..Len(t) : Len(t[i].blocks) <= 1}

----------------------------------------------------------------------------
(* The command.                                                            *)

Feature == "feature"

\* the *.tf files of the branch the working tree is on
WorkTree == IF cur = Feature THEN headTree ELSE baseTree

Terminated == pc \in {"done", "error", "exit", "panic"}

Init ==
    /\ pc = "start"
    /\ baseFlag \in {"", "main"}
    /\ targetFlag \in {"", Feature}
    /\ baseBranch = baseFlag
    /\ targetBranch = targetFlag
    /\ branches \in {{Feature} \cup s : s \in SUBSET {"main", "master"}}
    /\ cur = Feature
    /\ stash = "none"
    /\ log = <<>>
    /\ baseTree \in SmallTrees
    /\ headTree \in SmallTrees
    /\ baseResources = EmptyFn
    /\ headResources = EmptyFn
    /\ visited = {}
    /\ differentResources = <<>>
    /\ out = <<>>

\* lines 62-76: find the base branch when --base was not given
ResolveBase ==
    /\ pc = "start"
    /\ LET b1 == IF baseBranch = "" /\ "main" \in branches THEN "main" ELSE baseBranch
           b2 == IF baseBranch = "" /\ "master" \in branches THEN "master" ELSE b1
       IN  /\ baseBranch' = b2
           /\ pc' = IF b2 = "" THEN "error" ELSE "resolveTarget"
    /\ UNCHANGED <<baseFlag, targetFlag, targetBranch, branches, cur, stash, log,
                   baseTree, headTree, baseResources, headResources, visited,
                   differentResources, out>>

\* lines 78-84: the current branch when --target was not given
ResolveTarget ==
    /\ pc = "resolveTarget"
    /\ \/ /\ targetBranch /= ""
          /\ pc' = "stash"
          /\ UNCHANGED targetBranch
       \/ /\ targetBranch = ""
          /\ targetBranch' = cur
          /\ pc' = "stash"
       \/ /\ targetBranch = ""
          /\ pc' = "error"
          /\ UNCHANGED targetBranch
    /\ UNCHANGED <<baseFlag, targetFlag, baseBranch, branches, cur, stash, log,
                   baseTree, headTree, baseResources, headResources, visited,
                   differentResources, out>>

\* lines 86-90: git stash; the process exits when it fails
Stash ==
    /\ pc = "stash"
    /\ log' = Append(log, "git stash")
    /\ \/ stash' = "saved" /\ pc' = "checkoutBase"
       \/ stash' = stash /\ pc' = "exit"
    /\ UNCHANGED <<baseFlag, targetFlag, baseBranch, targetBranch, branches, cur,
                   baseTree, headTree, baseResources, headResources, visited,
                   differentResources, out>>

\* lines 92-95: git checkout <base>; diff() returns the error when it fails
CheckoutBase ==
    /\ pc = "checkoutBase"
    /\ log' = Append(log, "git checkout " \o baseBranch)
    /\ IF baseBranch \in branches
       THEN cur' = baseBranch /\ pc' = "parseBase"
       ELSE cur' = cur /\ pc' = "error"
    /\ UNCHANGED <<baseFlag, targetFlag, baseBranch, targetBranch, branches, stash,
                   baseTree, headTree, baseResources, headResources, visited,
                   differentResources, out>>

\* line 97: baseResources := parse()
ParseBase ==
    /\ pc = "parseBase"
    /\ LET r == parse(WorkTree)
       IN  /\ baseResources' = r.resources
           /\ pc' = IF r.status = "ok" THEN "checkoutTarget" ELSE r.status
    /\ UNCHANGED <<baseFlag, targetFlag, baseBranch, targetBranch, branches, cur,
                   stash, log, baseTree, headTree, headResources, visited,
                   differentResources, out>>

\* line 99: git checkout <target>, its error ignored
CheckoutTarget ==
    /\ pc = "checkoutTarget"
    /\ log' = Append(log, "git checkout " \o targetBranch)
    /\ cur' = IF targetBranch \in branches THEN targetBranch ELSE cur
    /\ pc' = "stashPop"
    /\ UNCHANGED <<baseFlag, targetFlag, baseBranch, targetBranch, branches, stash,
                   baseTree, headTree, baseResources, headResources, visited,
                   differentResources, out>>

\* line 100: git stash pop, its error ignored
StashPop ==
    /\ pc = "stashPop"
    /\ log' = Append(log, "git stash pop")
    /\ \/ stash' = "popped"
       \/ stash' = stash
    /\ pc' = "parseHead"
    /\ UNCHANGED <<baseFlag, targetFlag, baseBranch, targetBranch, branches, cur,
                   baseTree, headTree, baseResources, headResources, visited,
                   differentResources, out>>

\* line 102: headResources := parse()
ParseHead ==
    /\ pc = "parseHead"
    /\ LET r == parse(WorkTree)
       IN  /\ headResources' = r.resources
           /\ pc' = IF r.status = "ok" THEN "loopBase" ELSE r.status
    /\ UNCHANGED <<baseFlag, targetFlag, baseBranch, targetBranch, branches, cur,
                   stash, log, baseTree, headTree, baseResources, visited,
                   differentResources, out>>

\* lines 106-115: one iteration of `for name := range baseResources`
LoopBase ==
    /\ pc = "loopBase"
    /\ \E name \in DOMAIN baseResources \ visited :
          /\ visited' = visited \cup {name}
          /\ differentResources' =
                IF baseSideChanged(baseResources, headResources, name)
                THEN Append(differentResources, name)
                ELSE differentResources
    /\ UNCHANGED <<pc, baseFlag, targetFlag, baseBranch, targetBranch, branches,
                   cur, stash, log, baseTree, headTree, baseResources,
                   headResources, out>>

\* the first loop has produced every key
LoopBaseEnd ==
    /\ pc = "loopBase"
    /\ visited = DOMAIN baseResources
    /\ pc' = "loopHead"
    /\ visited' = {}
    /\ UNCHANGED <<baseFlag, targetFlag, baseBranch, targetBranch, branches, cur,
                   stash, log, baseTree, headTree, baseResources, headResources,
                   differentResources, out>>

\* lines 117-121: one iteration of `for name := range headResources`
LoopHead ==
    /\ pc = "loopHead"
    /\ \E name \in DOMAIN headResources \ visited :
          /\ visited' = visited \cup {name}
          /\ differentResources' =
                IF headSideAdded(baseResources, headResources, name)
                THEN Append(differentResources, name)
                ELSE differentResources
    /\ UNCHANGED <<pc, baseFlag, targetFlag, baseBranch, targetBranch, branches,
                   cur, stash, log, baseTree, headTree, baseResources,
                   headResources, out>>

\* the second loop has produced every key
LoopHeadEnd ==
    /\ pc = "loopHead"
    /\ visited = DOMAIN headResources
    /\ pc' = "print"
    /\ visited' = {}
    /\ UNCHANGED <<baseFlag, targetFlag, baseBranch, targetBranch, branches, cur,
                   stash, log, baseTree, headTree, baseResources, headResources,
                   differentResources, out>>

\* lines 123-131: print the flags and return nil
PrintFlags ==
    /\ pc = "print"
    /\ out' = render(differentResources)
    /\ pc' = "done"
    /\ UNCHANGED <<baseFlag, targetFlag, baseBranch, targetBranch, branches, cur,
                   stash, log, baseTree, headTree, baseResources, headResources,
                   visited, differentResources>>

NextDiff == LoopBase \/ LoopBaseEnd \/ LoopHead \/ LoopHeadEnd \/ PrintFlags

Next ==
    \/ ResolveBase \/ ResolveTarget \/ Stash \/ CheckoutBase \/ ParseBase
    \/ CheckoutTarget \/ StashPop \/ ParseHead \/ NextDiff

Spec == Init /\ [][Next]_vars

\* the command at line 97: stashed, on the base branch, about to parse it
InitParse ==
    /\ pc = "parseBase"
    /\ baseFlag = "main"
    /\ targetFlag = Feature
    /\ baseBranch = "main"
    /\ targetBranch = Feature
    /\ branches = {Feature, "main"}
    /\ cur = "main"
    /\ stash = "saved"
    /\ log = <<"git stash", "git checkout main">>
    /\ baseTree \in Trees
    /\ headTree = <<>>
    /\ baseResources = EmptyFn
    /\ headResources = EmptyFn
    /\ visited = {}
    /\ differentResources = <<>>
    /\ out = <<>>

NextParse == ParseBase

SpecParse == InitParse /\ [][NextParse]_vars

\* the command at line 104: both trees parsed, back on the target branch
InitDiff ==
    /\ pc = "loopBase"
    /\ baseFlag = "main"
    /\ targetFlag = Feature
    /\ baseBranch = "main"
    /\ targetBranch = Feature
    /\ branches = {Feature, "main"}
    /\ cur = Feature
    /\ stash = "popped"
    /\ log = <<"git stash", "git checkout main", "git checkout feature", "git stash pop">>
    /\ baseTree \in DiffTrees
    /\ headTree \in DiffTrees
    /\ baseResources = parse(baseTree).resources
    /\ headResources = parse(headTree).resources
    /\ visited = {}
    /\ differentResources = <<>>
    /\ out = <<>>

SpecDiff == InitDiff /\ [][NextDiff]_vars

----------------------------------------------------------------------------
(* Reference notions the properties are stated with.  They are written     *)
(* from the documents and from the decoded trees, not with the comparison  *)
(* and bookkeeping of diff() and parse().                                  *)

Range(f) == {f[i] : i \in DOMAIN f}

RECURSIVE FlattenFrom(_, _)
FlattenFrom(files, i) ==
    IF i > Len(files) THEN <<>> ELSE files[i].blocks \o FlattenFrom(files, i + 1)

\* every top-level block of the tree, in file order and then source order
Flatten(files) == FlattenFrom(files, 1)

\* the recognized top-level blocks, in that order
Declared(files) == SelectSeq(Flatten(files), Recognized)

DeclaredNames(files) == {ResourceName(b) : b \in Range(Declared(files))}

\* the last block named n
LastNamed(files, n) ==
    LET d == Declared(files)
        i == CHOOSE k \in 1..Len(d) :
                /\ ResourceName(d[k]) = n
                /\ \A j \in (k + 1)..Len(d) : ResourceName(d[j]) /= n
    IN  d[i]

\* the last of the sibling blocks of type t
LastOfType(blocks, t) ==
    LET i == CHOOSE k \in 1..Len(blocks) :
                /\ blocks[k].type = t
                /\ \A j \in (k + 1)..Len(blocks) : blocks[j].type /= t
    IN  blocks[i]

RECURSIVE MeaningBody(_)
\* what a body declares: its attributes' values and, per block type, what the
\* last nested block of that type declares; nothing stands for "absent"
MeaningBody(body) ==
    [attrs |-> [n \in DOMAIN body.attrs |-> ExprValue(body.attrs[n]).val],
     blocks |-> [t \in {b.type : b \in Range(body.blocks)} |->
                    MeaningBody(LastOfType(body.blocks, t).body)]]

\* what a tree declares: per Name, what the last block of that Name declares
Meaning(files) ==
    [n \in DeclaredNames(files) |-> MeaningBody(LastNamed(files, n).body)]

RECURSIVE NormBlock(_)
\* a decoded Resource or Block with nil and empty maps alike read as empty
NormBlock(b) ==
    [attrs |-> b.Attributes.m,
     blocks |-> [t \in DOMAIN b.Blocks.m |-> NormBlock(b.Blocks.m[t])]]

\* the paths of block types that lead to a nested Block
Paths == SeqsUpTo({"ebs"}, MaxDepth + 1)

RECURSIVE NodeAt(_, _)
\* the Block at path p below the normalised node, if there is one
NodeAt(node, p) ==
    IF p = <<>> THEN [found |-> TRUE, attrs |-> node.attrs]
    ELSE IF Head(p) \notin DOMAIN node.blocks THEN [found |-> FALSE, attrs |-> EmptyFn]
    ELSE NodeAt(node.blocks[Head(p)], Tail(p))

\* the two Declarations differ somewhere in their trees: a Block one has and
\* the other has not, or a Block of both whose attributes differ
DiffersAnywhere(a, b) ==
    \E p \in Paths :
        LET x == NodeAt(NormBlock(a), p)
            y == NodeAt(NormBlock(b), p)
        IN  x.found /= y.found \/ x.attrs /= y.attrs

\* removed, added, or present in both and different somewhere
ChangedNames ==
    (DOMAIN baseResources \ DOMAIN headResources)
    \cup (DOMAIN headResources \ DOMAIN baseResources)
    \cup {n \in DOMAIN baseResources \cap DOMAIN headResources :
             DiffersAnywhere(baseResources[n], headResources[n])}

LoopsDone == pc \in {"print", "done"}

ParseReturned == pc = "checkoutTarget"

NameA == "aws_instance.a"

----------------------------------------------------------------------------
(* Properties.                                                             *)

\* C1: the names diff() collects are exactly the names removed, the names
\* added, and the names of both collections whose Declarations differ
\* somewhere in their Attributes/Blocks tree, at any depth.
C1_ChangedSetExact == LoopsDone => Range(differentResources) = ChangedNames

\* C1 witness: both collections hold module.net unchanged and aws_instance.a
\* with the same attributes of its own and a change below, and only
\* aws_instance.a was collected.
C1_Witness ==
    /\ pc = "done"
    /\ "module.net" \in DOMAIN baseResources \cap DOMAIN headResources
    /\ NameA \in DOMAIN baseResources \cap DOMAIN headResources
    /\ baseResources[NameA].Attributes = headResources[NameA].Attributes
    /\ ~baseResources[NameA].Blocks.isNil /\ ~headResources[NameA].Blocks.isNil
    /\ baseResources[NameA].Blocks.m["ebs"].Attributes
          = headResources[NameA].Blocks.m["ebs"].Attributes
    /\ differentResources = <<NameA>>

\* C2: the names collected from (base, head) are the names the same two loop
\* bodies select with the roles of base and head exchanged.
C2_Symmetric ==
    LoopsDone =>
        Range(differentResources) =
            {n \in DOMAIN headResources : baseSideChanged(headResources, baseResources, n)}
            \cup {n \in DOMAIN baseResources : headSideAdded(headResources, baseResources, n)}

\* C2 witness: one name only in base, another only in head, both collected.
C2_Witness ==
    /\ pc = "done"
    /\ DOMAIN baseResources = {"module.net"}
    /\ DOMAIN headResources = {NameA}
    /\ Range(differentResources) = {NameA, "module.net"}

RECURSIVE NoEmptyMap(_)
\* every map of the decoded node is nil or has a key
NoEmptyMap(b) ==
    /\ b.Attributes.isNil = (DOMAIN b.Attributes.m = {})
    /\ b.Blocks.isNil = (DOMAIN b.Blocks.m = {})
    /\ \A t \in DOMAIN b.Blocks.m : NoEmptyMap(b.Blocks.m[t])

\* C3: two trees that declare the same Names with the same attributes and the
\* same blocks give an empty list and the sentinel; and a body without
\* attributes or without blocks is decoded to a nil map, never an empty one.
C3_NoSpuriousChange ==
    /\ \A n \in DOMAIN baseResources : NoEmptyMap(baseResources[n])
    /\ \A n \in DOMAIN headResources : NoEmptyMap(headResources[n])
    /\ (pc = "done" /\ Meaning(baseTree) = Meaning(headTree))
          => (differentResources = <<>> /\ out = <<"-refresh=false">>)

\* C3 witness: two different documents declaring the same thing, a resource
\* with no attribute of its own and a nested block, and the sentinel printed.
C3_Witness ==
    /\ pc = "done"
    /\ baseTree /= headTree
    /\ Meaning(baseTree) = Meaning(headTree)
    /\ NameA \in DOMAIN baseResources
    /\ baseResources[NameA].Attributes.isNil
    /\ ~baseResources[NameA].Blocks.isNil
    /\ baseResources[NameA].Blocks.m["ebs"].Blocks.isNil
    /\ out = <<"-refresh=false">>

\* C4: the output is the sentinel alone when no name changed; otherwise one
\* `-target <Name> ` per changed name, each exactly once, and no sentinel.
C4_Output ==
    pc = "done" =>
        IF ChangedNames = {}
        THEN out = <<"-refresh=false">>
        ELSE /\ Len(out) = Cardinality(ChangedNames)
             /\ \A n \in ChangedNames :
                   Cardinality({i \in 1..Len(out) : out[i] = "-target " \o n \o " "}) = 1
             /\ \A i \in 1..Len(out) : out[i] /= "-refresh=false"

\* C4 witness: aws_instance.a of both collections changed, module.net only in
\* head, each printed once.
C4_Witness ==
    /\ pc = "done"
    /\ DOMAIN baseResources = {NameA}
    /\ DOMAIN headResources = {NameA, "module.net"}
    /\ out = <<"-target aws_instance.a ", "-target module.net ">>

\* C5: when parse() returns, the collection has one Resource per declared Name
\* and it is the decoding of the last block of that Name in file and source
\* order.
C5_LastDeclarationWins ==
    ParseReturned =>
        /\ DOMAIN baseResources = DeclaredNames(baseTree)
        /\ \A n \in DOMAIN baseResources :
              baseResources[n] = decodeResource(LastNamed(baseTree, n))

\* C5 witness: aws_instance.a declared in the first file with ami = "x" and in
\* the second with ami = "y"; the collection holds "y".
C5_Witness ==
    /\ ParseReturned
    /\ Len(baseTree) = 2
    /\ ResA(SynBody(AmiX, <<>>)) \in Range(baseTree[1].blocks)
    /\ ResA(SynBody(AmiY, <<>>)) \in Range(baseTree[2].blocks)
    /\ ResA(SynBody(AmiX, <<>>)) \notin Range(baseTree[2].blocks)
    /\ baseResources[NameA].Attributes.m["ami"].v = "y"

\* C6: at every nesting level the decoded Blocks have one entry per block type
\* and it is what the last sibling of that type declares.
C6_LastSiblingWins ==
    ParseReturned =>
        \A n \in DOMAIN baseResources :
            NormBlock(baseResources[n]).blocks = MeaningBody(LastNamed(baseTree, n).body).blocks

\* C6 witness: two sibling `ebs` blocks one level down, the first with
\* attributes and the second without; the decoded `ebs` has none.
C6_Witness ==
    /\ ParseReturned
    /\ NameA \in DOMAIN baseResources
    /\ LET top == LastNamed(baseTree, NameA).body.blocks
       IN  /\ Len(top) = 1
           /\ top[1].type = "tags"
           /\ Len(top[1].body.blocks) = 2
           /\ top[1].body.blocks[1].type = "ebs"
           /\ top[1].body.blocks[2].type = "ebs"
           /\ DOMAIN top[1].body.blocks[1].body.attrs /= {}
           /\ DOMAIN top[1].body.blocks[2].body.attrs = {}
    /\ baseResources[NameA].Blocks.m["tags"].Blocks.m["ebs"].Attributes.isNil

Healed == [ty |-> "string", v |-> "healed"]

\* the expression, a literal put in the place of a variable reference
HealExpr(e) == IF e.kind = "var" THEN Lit("healed") ELSE e

RECURSIVE HealBlocks(_)
HealBody(body) ==
    SynBody([n \in DOMAIN body.attrs |-> HealExpr(body.attrs[n])], HealBlocks(body.blocks))

HealBlocks(blocks) ==
    [i \in 1..Len(blocks) |->
        SynBlock(blocks[i].type, blocks[i].labels, HealBody(blocks[i].body))]

\* the tree with every expression that fails to evaluate replaced by a literal
HealTree(files) ==
    [i \in 1..Len(files) |-> File(files[i].ok, HealBlocks(files[i].blocks))]

UnhealValues(a) ==
    [isNil |-> a.isNil,
     m |-> [k \in DOMAIN a.m |-> IF a.m[k] = Healed THEN DynamicVal ELSE a.m[k]]]

RECURSIVE UnhealBlocks(_)
UnhealBlocks(b) ==
    [isNil |-> b.isNil,
     m |-> [t \in DOMAIN b.m |->
              [Attributes |-> UnhealValues(b.m[t].Attributes),
               Blocks |-> UnhealBlocks(b.m[t].Blocks)]]]

\* the collection with the unknown marker back in the place of that literal
Unheal(resources) ==
    [n \in DOMAIN resources |->
        [Name |-> resources[n].Name,
         Attributes |-> UnhealValues(resources[n].Attributes),
         Blocks |-> UnhealBlocks(resources[n].Blocks)]]

\* C8: parse() ends the way it ends on the tree whose failing expressions are
\* replaced by a literal, and the collection it returns is that tree's
\* collection with the unknown marker under each of those attribute names.
C8_EvaluationFailureTolerated ==
    pc /= "parseBase" =>
        LET h == parse(HealTree(baseTree))
        IN  /\ pc = (IF h.status = "ok" THEN "checkoutTarget" ELSE h.status)
            /\ baseResources = Unheal(h.resources)

\* C8 witness: a nested block whose `size` fails to evaluate next to an `ami`
\* that evaluates; both are keys, `size` holds the unknown marker.
C8_Witness ==
    /\ ParseReturned
    /\ NameA \in DOMAIN baseResources
    /\ ~baseResources[NameA].Blocks.isNil
    /\ "ebs" \in DOMAIN baseResources[NameA].Blocks.m
    /\ LET at == baseResources[NameA].Blocks.m["ebs"].Attributes
       IN  /\ DOMAIN at.m = {"ami", "size"}
           /\ at.m["size"] = DynamicVal
           /\ at.m["ami"] = [ty |-> "string", v |-> "x"]

\* C7: parse() ends by returning a collection or by the exit of a parse
\* error, whatever the headers of the recognized blocks are.
C7_TwoOutcomes == pc /= "parseBase" => pc \in {"checkoutTarget", "exit"}

\* C9: two recognized blocks of one tree get the same Name only when they have
\* the same type and the same labels.
C9_NameIdentifies ==
    ParseReturned =>
        \A b1, b2 \in Range(Declared(baseTree)) :
            ResourceName(b1) = ResourceName(b2)
                => (b1.type = b2.type /\ b1.labels = b2.labels)

\* C10: a run that stashed and moved the working tree to the base branch has
\* run `git checkout <target>` and then `git stash pop` when it terminates.
C10_TreeRestored ==
    (/\ Terminated
     /\ \E i \in 1..Len(log) : log[i] = "git stash"
     /\ \E i \in 1..Len(log) : log[i] = "git checkout " \o baseBranch
     /\ baseBranch \in branches)
        => \E j \in 1..Len(log) :
              /\ log[j] = "git checkout " \o targetBranch
              /\ j < Len(log)
              /\ log[j + 1] = "git stash pop"

====
